---- MODULE Spec2Model ----
(***************************************************************************)
(* Model of the /upload/ handler of app/main.py (upload_files): one batch  *)
(* of uploaded files is walked in input order; images are deduplicated by  *)
(* perceptual hash within IMAGE_HASH_THRESHOLD bits, documents by md5      *)
(* digest.  The two indexes are Python dicts keyed by file name.           *)
(***************************************************************************)
EXTENDS Integers, Sequences, FiniteSets, TLC

\* ------------------------------------------------------------------ bounds
\* longest batch explored
MaxFiles == 3

\* ------------------------------------------------------- program constants
IMAGE_HASH_THRESHOLD == 5

image_extensions ==
    { <<".", "j", "p", "g">>, <<".", "j", "p", "e", "g">>, <<".", "p", "n", "g">>,
      <<".", "b", "m", "p">>, <<".", "g", "i", "f">>, <<".", "t", "i", "f", "f">> }

document_extensions ==
    { <<".", "p", "d", "f">>, <<".", "d", "o", "c", "x">>, <<".", "t", "x", "t">> }

\* ------------------------------------------------------------- input space
\* File names are sequences of characters, so that the extension is computed.
ImageNames == { <<"a", ".", "j", "p", "g">>, <<"b", ".", "J", "P", "G">> }

DocumentNames == { <<"a", ".", "t", "x", "t">>, <<"b", ".", "t", "x", "t">> }

OtherNames == { <<"c", ".", "x", "y", "z">> }

Filenames == ImageNames \cup DocumentNames \cup OtherNames

\* Byte contents are opaque blobs.  Blobs 0..3 decode as images, blob 4 does not.
Decodable == {0, 1, 2, 3}

Contents == Decodable \cup {4}

\* the files a batch is drawn from: every blob under each image name, two
\* blobs under each document name, one under the unsupported name
UploadFiles ==
    [filename : ImageNames, content : Contents]
        \cup [filename : DocumentNames, content : {0, 1}]
        \cup [filename : OtherNames, content : {0}]

\* Python's None, as a value of the phash type / of the file name type
None == {-1}

NoName == << >>

\* A fingerprint is the set of the positions of its 1 bits (64 bit phash).
Bits(n) == {b \in 0 .. 63 : b < n}

\* ------------------------------------------------------------ pure helpers
\* str.lower() on one character
LowerChar(c) ==
    CASE c = "J" -> "j"
      [] c = "P" -> "p"
      [] c = "G" -> "g"
      [] OTHER -> c

lower(s) == [k \in 1 .. Len(s) |-> LowerChar(s[k])]

\* os.path.splitext(name)[1]: from the last dot on, unless only dots precede it
splitext(name) ==
    LET dots == {k \in 1 .. Len(name) : name[k] = "."}
        last == IF dots = {} THEN 0 ELSE CHOOSE k \in dots : \A j \in dots : j <= k
    IN  IF last = 0 \/ (\A j \in 1 .. last - 1 : name[j] = ".")
        THEN << >>
        ELSE SubSeq(name, last, Len(name))

\* ext, for each file name of the input space
ExtOf == [name \in Filenames |-> lower(splitext(name))]

Ext(file) == ExtOf[file.filename]

\* get_image_hash: Image.open + imagehash.phash, None when decoding fails
\* the phash of each decodable blob: blob 1 is 5 bits from blob 0, blob 2 is
\* 3 bits from blob 1 and 8 from blob 0, blob 3 is 3 bits from blob 1, 6 from
\* blob 2 and 8 from blob 0
PHashOf ==
    [image_bytes \in Decodable |->
        CASE image_bytes = 0 -> Bits(0)
          [] image_bytes = 1 -> Bits(5)
          [] image_bytes = 2 -> Bits(8)
          [] OTHER -> Bits(5) \cup {20, 21, 22}]

get_image_hash(image_bytes) ==
    IF image_bytes \in Decodable THEN PHashOf[image_bytes] ELSE None

\* get_file_hash: hashlib.md5(bytes).hexdigest(), taken as collision free
get_file_hash(file_bytes) == <<"md5", file_bytes>>

\* imagehash's h1 - h2: the number of differing bits
HashDiff(h1, h2) == Cardinality((h1 \ h2) \cup (h2 \ h1))

\* mutant: the comparison excludes the threshold itself
IsNearStrict(img_hash, existing_hash) == HashDiff(img_hash, existing_hash) < IMAGE_HASH_THRESHOLD

\* mutant: the comparison is turned around
IsNearFlipped(img_hash, existing_hash) == HashDiff(img_hash, existing_hash) >= IMAGE_HASH_THRESHOLD

\* abs(img_hash - existing_hash) <= IMAGE_HASH_THRESHOLD
IsNear(img_hash, existing_hash) == HashDiff(img_hash, existing_hash) <= IMAGE_HASH_THRESHOLD

\* --------------------------------------------------------- Python dict ops
\* A dict is the sequence of its <<key, value>> items in key insertion order.
DictKeys(d) == {d[k][1] : k \in 1 .. Len(d)}

DictValues(d) == {d[k][2] : k \in 1 .. Len(d)}

\* d[key] = value: a new key is appended, an existing key keeps its place
\* and gets the new value
DictSet(d, key, value) ==
    IF key \in DictKeys(d)
    THEN [k \in 1 .. Len(d) |-> IF d[k][1] = key THEN <<key, value>> ELSE d[k]]
    ELSE Append(d, <<key, value>>)

\* mutant: the loop has no break, so the last item within the threshold wins
LastMatch(d, img_hash) ==
    LET near == {k \in 1 .. Len(d) : HashDiff(img_hash, d[k][2]) <= IMAGE_HASH_THRESHOLD}
    IN  IF near = {} THEN 0 ELSE CHOOSE k \in near : \A j \in near : j <= k

\* the loop over image_hashes.items() with its break: position of the first
\* item within the threshold, 0 when the loop runs to its end
FirstMatch(d, img_hash) ==
    LET near == {k \in 1 .. Len(d) : IsNear(img_hash, d[k][2])}
    IN  IF near = {} THEN 0 ELSE CHOOSE k \in near : \A j \in near : k <= j

\* doc_hash in doc_hashes.values()
DocSeen(d, doc_hash) == doc_hash \in DictValues(d)

\* ------------------------------------------------------------------- state
VARIABLES
    files,          \* the request's batch, in input order
    idx,            \* position of the file the for loop takes next
    pc,             \* "loop" | "done"
    image_hashes,   \* dict: file name -> phash
    doc_hashes,     \* dict: file name -> md5 digest
    deleted_files,  \* names reported as duplicates
    saved_files,    \* names reported as saved
    written,        \* the f.write calls so far: [filename, content]
    decisions,      \* per processed file: the branch taken and existing_name
    response        \* << >> before the return, then <<the returned body>>

vars == <<files, idx, pc, image_hashes, doc_hashes, deleted_files, saved_files,
          written, decisions, response>>

Locals ==
    [image_hashes |-> image_hashes, doc_hashes |-> doc_hashes,
     deleted_files |-> deleted_files, saved_files |-> saved_files,
     written |-> written, decisions |-> decisions]

EmptyLocals ==
    [image_hashes |-> << >>, doc_hashes |-> << >>, deleted_files |-> << >>,
     saved_files |-> << >>, written |-> << >>, decisions |-> << >>]

Decision(kind, match) == [kind |-> kind, match |-> match]

\* mutant: a file that cannot be handled is reported among the duplicates
SkipReportsDeleted(loc, file) ==
    [loc EXCEPT !.deleted_files = Append(@, file.filename),
                !.decisions = Append(@, Decision("skipped", NoName))]

\* continue / no branch taken: nothing but the loop position changes
Skip(loc, file) ==
    [loc EXCEPT !.decisions = Append(@, Decision("skipped", NoName))]

\* mutant: the bytes are written before the duplicate check
ImageDuplicateWrites(loc, file, existing_name) ==
    [loc EXCEPT !.deleted_files = Append(@, file.filename),
                !.written = Append(@, [filename |-> file.filename, content |-> file.content]),
                !.decisions = Append(@, Decision("deleted", existing_name))]

\* lines 81-84
ImageDuplicate(loc, file, existing_name) ==
    [loc EXCEPT !.deleted_files = Append(@, file.filename),
                !.decisions = Append(@, Decision("deleted", existing_name))]

\* lines 85-89
ImageSave(loc, file, img_hash) ==
    [loc EXCEPT !.image_hashes = DictSet(@, file.filename, img_hash),
                !.written = Append(@, [filename |-> file.filename, content |-> file.content]),
                !.saved_files = Append(@, file.filename),
                !.decisions = Append(@, Decision("saved", NoName))]

\* mutant: the else is lost, a duplicate document is saved as well
DocDuplicateAlsoSaved(loc, file) ==
    [loc EXCEPT !.deleted_files = Append(@, file.filename),
                !.saved_files = Append(@, file.filename),
                !.decisions = Append(@, Decision("deleted", NoName))]

\* lines 94-95
DocDuplicate(loc, file) ==
    [loc EXCEPT !.deleted_files = Append(@, file.filename),
                !.decisions = Append(@, Decision("deleted", NoName))]

\* lines 96-100
DocSave(loc, file, doc_hash) ==
    [loc EXCEPT !.doc_hashes = DictSet(@, file.filename, doc_hash),
                !.written = Append(@, [filename |-> file.filename, content |-> file.content]),
                !.saved_files = Append(@, file.filename),
                !.decisions = Append(@, Decision("saved", NoName))]

\* one iteration of the for loop
ProcessFile(loc, file) ==
    IF Ext(file) \in image_extensions
    THEN LET img_hash == get_image_hash(file.content)
         IN  IF img_hash = None
             THEN Skip(loc, file)
             ELSE LET m == FirstMatch(loc.image_hashes, img_hash)
                  IN  IF m # 0
                      THEN ImageDuplicate(loc, file, loc.image_hashes[m][1])
                      ELSE ImageSave(loc, file, img_hash)
    ELSE IF Ext(file) \in document_extensions
         THEN LET doc_hash == get_file_hash(file.content)
              IN  IF DocSeen(loc.doc_hashes, doc_hash)
                  THEN DocDuplicate(loc, file)
                  ELSE DocSave(loc, file, doc_hash)
         ELSE Skip(loc, file)

\* the whole loop as a function of the batch
RECURSIVE Upload(_)
Upload(batch) ==
    IF batch = << >>
    THEN EmptyLocals
    ELSE ProcessFile(Upload(SubSeq(batch, 1, Len(batch) - 1)), batch[Len(batch)])

SetLocals(loc) ==
    /\ image_hashes' = loc.image_hashes
    /\ doc_hashes' = loc.doc_hashes
    /\ deleted_files' = loc.deleted_files
    /\ saved_files' = loc.saved_files
    /\ written' = loc.written
    /\ decisions' = loc.decisions

Batches == UNION {[1 .. n -> UploadFiles] : n \in 0 .. MaxFiles}

Init ==
    /\ files \in Batches
    /\ idx = 1
    /\ pc = "loop"
    /\ image_hashes = << >>
    /\ doc_hashes = << >>
    /\ deleted_files = << >>
    /\ saved_files = << >>
    /\ written = << >>
    /\ decisions = << >>
    /\ response = << >>

InLoop == pc = "loop" /\ idx <= Len(files)

Advance(file) ==
    /\ SetLocals(ProcessFile(Locals, file))
    /\ idx' = idx + 1
    /\ UNCHANGED <<files, pc, response>>

\* an image whose bytes do not decode: continue
UndecodableImage ==
    /\ InLoop
    /\ Ext(files[idx]) \in image_extensions
    /\ get_image_hash(files[idx].content) = None
    /\ Advance(files[idx])

\* an image within the threshold of an indexed one
DuplicateImage ==
    /\ InLoop
    /\ Ext(files[idx]) \in image_extensions
    /\ get_image_hash(files[idx].content) # None
    /\ FirstMatch(image_hashes, get_image_hash(files[idx].content)) # 0
    /\ Advance(files[idx])

\* an image no indexed one is near to
NewImage ==
    /\ InLoop
    /\ Ext(files[idx]) \in image_extensions
    /\ get_image_hash(files[idx].content) # None
    /\ FirstMatch(image_hashes, get_image_hash(files[idx].content)) = 0
    /\ Advance(files[idx])

DuplicateDocument ==
    /\ InLoop
    /\ Ext(files[idx]) \notin image_extensions
    /\ Ext(files[idx]) \in document_extensions
    /\ DocSeen(doc_hashes, get_file_hash(files[idx].content))
    /\ Advance(files[idx])

NewDocument ==
    /\ InLoop
    /\ Ext(files[idx]) \notin image_extensions
    /\ Ext(files[idx]) \in document_extensions
    /\ ~DocSeen(doc_hashes, get_file_hash(files[idx].content))
    /\ Advance(files[idx])

\* neither extension set holds the extension: the iteration does nothing
Unsupported ==
    /\ InLoop
    /\ Ext(files[idx]) \notin image_extensions
    /\ Ext(files[idx]) \notin document_extensions
    /\ Advance(files[idx])

\* the return statement
Return ==
    /\ pc = "loop"
    /\ idx > Len(files)
    /\ pc' = "done"
    /\ response' = <<[saved_files |-> saved_files, deleted_duplicates |-> deleted_files]>>
    /\ UNCHANGED <<files, idx, image_hashes, doc_hashes, deleted_files, saved_files,
                   written, decisions>>

Next ==
    \/ UndecodableImage
    \/ DuplicateImage
    \/ NewImage
    \/ DuplicateDocument
    \/ NewDocument
    \/ Unsupported
    \/ Return

Spec == Init /\ [][Next]_vars

\* ------------------------------------------------- vocabulary of the claims
Processed == idx - 1

IsImage(f) == Ext(f) \in image_extensions

IsDocument(f) == Ext(f) \notin image_extensions /\ Ext(f) \in document_extensions

HashableImage(f) == IsImage(f) /\ get_image_hash(f.content) # None

\* an item that gets a decision: a decodable image or a document
Supported(f) == HashableImage(f) \/ IsDocument(f)

Accepted(q) == decisions[q].kind = "saved"

Duplicate(q) == decisions[q].kind = "deleted"

PHash(q) == get_image_hash(files[q].content)

Far(h1, h2) == HashDiff(h1, h2) > IMAGE_HASH_THRESHOLD

\* the locals as they stood when the loop took file q
Before(q) == Upload(SubSeq(files, 1, q - 1))

\* positions 1..n whose decision is of the given kind, in input order
RECURSIVE PositionsOf(_, _)
PositionsOf(kind, n) ==
    IF n = 0
    THEN << >>
    ELSE IF decisions[n].kind = kind
         THEN Append(PositionsOf(kind, n - 1), n)
         ELSE PositionsOf(kind, n - 1)

NamesAt(ps) == [k \in 1 .. Len(ps) |-> files[ps[k]].filename]

\* the locals follow the loop's function of the processed prefix
UploadAgrees ==
    /\ Len(decisions) = Processed
    /\ Locals = Upload(SubSeq(files, 1, Processed))

\* ------------------------------------------------------------------ claims

\* C1: for every distinct document content of a batch, the first document
\* item with that content is accepted and every later document item with the
\* same bytes is a duplicate, so exactly one item per content is accepted.
C1_OneAcceptedPerDocumentContent ==
    \A q \in 1 .. Processed :
        IsDocument(files[q]) =>
            LET earlier == {p \in 1 .. q - 1 : /\ IsDocument(files[p])
                                               /\ files[p].content = files[q].content}
            IN  /\ earlier = {} => Accepted(q)
                /\ earlier # {} => Duplicate(q)

\* C3: after every step no two accepted items of one family are duplicates
\* of each other: accepted images are pairwise farther apart than the
\* threshold and accepted documents have pairwise different digests.
C3_NoTwoAcceptedAreDuplicates ==
    \A q \in 1 .. Processed : \A p \in 1 .. q - 1 :
        (Accepted(p) /\ Accepted(q)) =>
            /\ (HashableImage(files[p]) /\ HashableImage(files[q])) => Far(PHash(p), PHash(q))
            /\ (IsDocument(files[p]) /\ IsDocument(files[q])) =>
                   get_file_hash(files[p].content) # get_file_hash(files[q].content)

\* C4: the index only grows by appending: each index is, entry for entry, the
\* list of (name, fingerprint) of the accepted items of its family in the order
\* they were accepted, so no entry is ever changed or removed.
C4_IndexIsAppendOnly ==
    LET saved == PositionsOf("saved", Processed)
        imgs == SelectSeq(saved, LAMBDA q : IsImage(files[q]))
        docs == SelectSeq(saved, LAMBDA q : IsDocument(files[q]))
    IN  /\ image_hashes = [k \in 1 .. Len(imgs) |-> <<files[imgs[k]].filename, PHash(imgs[k])>>]
        /\ doc_hashes = [k \in 1 .. Len(docs) |->
                            <<files[docs[k]].filename, get_file_hash(files[docs[k]].content)>>]

C5_FarImagesBothAccepted ==
    \A q \in 1 .. Processed : \A p \in 1 .. q - 1 :
        (HashableImage(files[p]) /\ HashableImage(files[q]) /\ Far(PHash(p), PHash(q))) =>
            Accepted(p) /\ Accepted(q)

\* C5 amended: an image whose fingerprint is farther than the threshold from
\* that of every decodable image processed before it in the batch is accepted
\* (so both images of a batch of two such images are).
C5_FarFromAllEarlierIsAccepted ==
    \A q \in 1 .. Processed :
        ( /\ HashableImage(files[q])
          /\ \A p \in 1 .. q - 1 : HashableImage(files[p]) => Far(PHash(p), PHash(q)) )
        => Accepted(q)

\* two images farther apart than the threshold were both accepted
C5_Witness ==
    \E q \in 1 .. Processed : \E p \in 1 .. q - 1 :
        /\ HashableImage(files[p]) /\ HashableImage(files[q])
        /\ Far(PHash(p), PHash(q))
        /\ Accepted(p) /\ Accepted(q)

\* C6: an item with an unsupported extension or an undecodable image gets no
\* decision and does not stop the loop, and the result lists, both indexes and
\* the writes are those of the same batch with these items removed.
C6_DroppedItemsLeaveNoTrace ==
    LET kept == SelectSeq(SubSeq(files, 1, Processed), Supported)
        r == Upload(kept)
    IN  /\ \A q \in 1 .. Processed :
               ~Supported(files[q]) => ~Accepted(q) /\ ~Duplicate(q)
        /\ saved_files = r.saved_files
        /\ deleted_files = r.deleted_files
        /\ image_hashes = r.image_hashes
        /\ doc_hashes = r.doc_hashes
        /\ written = r.written
        /\ pc = "done" =>
               /\ Processed = Len(files)
               /\ response = <<[saved_files |-> r.saved_files,
                                deleted_duplicates |-> r.deleted_files]>>

\* a batch ran to its end past an unsupported item and an undecodable image
C6_Witness ==
    /\ pc = "done"
    /\ \E p, q, r \in 1 .. Len(files) :
           /\ p < r /\ q < r
           /\ ~IsImage(files[p]) /\ ~IsDocument(files[p])
           /\ IsImage(files[q]) /\ ~HashableImage(files[q])
           /\ Accepted(r)

\* C7: each supported, hashable item contributes its name to exactly one of
\* the two lists and no other item contributes anything: the accepted list is
\* the names of the accepted items in input order, the duplicates list those
\* of the duplicates, and the two lengths add up to the number of such items.
C7_OneDecisionPerItem ==
    /\ \A q \in 1 .. Processed : Supported(files[q]) <=> (Accepted(q) \/ Duplicate(q))
    /\ saved_files = NamesAt(PositionsOf("saved", Processed))
    /\ deleted_files = NamesAt(PositionsOf("deleted", Processed))
    /\ Len(saved_files) + Len(deleted_files)
           = Cardinality({q \in 1 .. Processed : Supported(files[q])})

\* a finished batch with one accepted, one duplicate and one dropped item
C7_Witness ==
    /\ pc = "done"
    /\ Len(files) = 3
    /\ Len(saved_files) = 1
    /\ Len(deleted_files) = 1

\* C8: for a batch of two mutually duplicate images with different names the
\* first is accepted and the second is a duplicate, the reversed batch accepts
\* the other one, and both orders give two entries in all.
C8_ReversalSwapsSurvivor ==
    ( /\ pc = "done"
      /\ Len(files) = 2
      /\ HashableImage(files[1]) /\ HashableImage(files[2])
      /\ files[1].filename # files[2].filename
      /\ ~Far(PHash(1), PHash(2)) )
    => LET r == Upload(<<files[2], files[1]>>)
       IN  /\ saved_files = <<files[1].filename>>
           /\ deleted_files = <<files[2].filename>>
           /\ r.saved_files = <<files[2].filename>>
           /\ r.deleted_files = <<files[1].filename>>
           /\ Len(saved_files) + Len(deleted_files)
                  = Len(r.saved_files) + Len(r.deleted_files)

\* a finished batch of two differently named images exactly at the threshold
C8_Witness ==
    /\ pc = "done"
    /\ Len(files) = 2
    /\ HashableImage(files[1]) /\ HashableImage(files[2])
    /\ files[1].filename # files[2].filename
    /\ HashDiff(PHash(1), PHash(2)) = IMAGE_HASH_THRESHOLD
    /\ saved_files = <<files[1].filename>>

C10_WritesOnlyForAccepted ==
    LET saved == PositionsOf("saved", Processed)
    IN  /\ written = [k \in 1 .. Len(saved) |->
                         [filename |-> files[saved[k]].filename,
                          content |-> files[saved[k]].content]]
        /\ Len(written) = Len(saved_files)
        /\ \A k \in 1 .. Len(written) : written[k].filename = saved_files[k]
        /\ Processed >= 1 =>
               LET q == Processed
                   b == Before(q)
                   a == Locals
               IN  IF Accepted(q)
                   THEN /\ a.written = Append(b.written, [filename |-> files[q].filename,
                                                          content |-> files[q].content])
                        /\ a.saved_files = Append(b.saved_files, files[q].filename)
                        /\ IF IsImage(files[q])
                           THEN <<files[q].filename, PHash(q)>> \in
                                    {a.image_hashes[k] : k \in 1 .. Len(a.image_hashes)}
                           ELSE <<files[q].filename, get_file_hash(files[q].content)>> \in
                                    {a.doc_hashes[k] : k \in 1 .. Len(a.doc_hashes)}
                   ELSE a.written = b.written

\* one name was written twice with different bytes and a duplicate was not written
C10_Witness ==
    /\ pc = "done"
    /\ Len(written) = 2
    /\ written[1].filename = written[2].filename
    /\ written[1].content # written[2].content
    /\ \E q \in 1 .. Processed : Duplicate(q)

====
